---- MODULE Spec2Model ----
(***************************************************************************)
(* Model of the two provisioning scripts of the repository:                *)
(*   setup_supabase.py   (interactive: main / setup_supabase /              *)
(*                        configure_everything)                             *)
(*   create_polarity.py  (non-interactive module-level script)              *)
(* One behaviour is one run of one script.  The state is the script's       *)
(* variables, the three files it touches (.env, ~/.claude/settings.json,    *)
(* ~/.claude/settings.json.backup) and a log of the HTTP requests and file  *)
(* accesses it has made.                                                    *)
(*                                                                          *)
(* Text is a sequence of fragments; "" is << >>.  Operator input and        *)
(* passwords are sequences of single characters so that str.strip and len   *)
(* are computed, not assumed.                                               *)
(***************************************************************************)
EXTENDS Integers, Sequences, FiniteSets, TLC

VARIABLES
    script,         \* which script runs
    pc,             \* position in the script
    exit_status,    \* process exit status once pc = "exit" (-1 while running)
    exit_at,        \* the step at which the run ended ("" while running)
    env_token,      \* os.environ["SUPABASE_ACCESS_TOKEN"]
    access_token,
    orgs, org_id, existing, project_name,
    project_ref, project_url, region, region_choice, db_password,
    anon_key, service_key, attempt,
    settings,       \* the parsed settings document held in memory
    env_file, settings_file, backup_file,      \* the file system
    env0, settings0, backup0,                  \* the files as they were before the run
    reqs,           \* number of HTTP requests issued, per endpoint
    sleeps,         \* number of time.sleep(3) calls
    post_body,      \* JSON payload of the POST /projects issued (if any)
    file_reads, file_writes,                   \* names of files opened for reading / writing
    last_call,      \* the most recent organizations/projects/create call and how it ended
    both_at,        \* 1-based polling attempt that returned both keys (0: none)
    pw_tries        \* iterations of the password loop so far

prog_vars == <<access_token, orgs, org_id, existing, project_name, project_ref, project_url,
               region, region_choice, db_password, anon_key, service_key, attempt, settings>>
file_vars == <<env_file, settings_file, backup_file>>
init_vars == <<script, env_token, env0, settings0, backup0>>
log_vars  == <<reqs, sleeps, post_body, file_reads, file_writes, last_call, both_at, pw_tries>>
ctl_vars  == <<pc, exit_status, exit_at>>
vars == <<ctl_vars, init_vars, prog_vars, file_vars, log_vars>>

(***************************************************************************)
(* Bounds of the model                                                     *)
(***************************************************************************)
MaxOrgs == 2            \* organizations the API may list
MaxProjects == 1        \* existing projects the API may list
MaxPasswordTries == 2   \* rejected iterations of the `while True` password loop

(***************************************************************************)
(* Text                                                                    *)
(***************************************************************************)
Empty == << >>
Whitespace == {" "}

RECURSIVE LStrip(_)
LStrip(s) == IF s # Empty /\ Head(s) \in Whitespace THEN LStrip(Tail(s)) ELSE s

RECURSIVE RStrip(_)
RStrip(s) == IF s # Empty /\ s[Len(s)] \in Whitespace
             THEN RStrip(SubSeq(s, 1, Len(s) - 1)) ELSE s

\* str.strip()
Strip(s) == RStrip(LStrip(s))

\* Python truthiness of a str
Truthy(s) == s # Empty

(***************************************************************************)
(* JSON documents and the files holding them                               *)
(***************************************************************************)
EmptyMap == << >>
JStr(s) == [type |-> "string", str |-> s, members |-> EmptyMap]
JObj(m) == [type |-> "object", str |-> Empty, members |-> m]
JArr == [type |-> "array", str |-> Empty, members |-> EmptyMap]
NoDoc == [type |-> "none", str |-> Empty, members |-> EmptyMap]

\* d[k] = v on a dict
DictSet(m, k, v) == [x \in (DOMAIN m) \cup {k} |-> IF x = k THEN v ELSE m[x]]

AbsentFile == [exists |-> FALSE, wellformed |-> FALSE, fmt |-> "", doc |-> NoDoc]
MalformedFile == [exists |-> TRUE, wellformed |-> FALSE, fmt |-> "raw", doc |-> NoDoc]
JsonFile(f, d) == [exists |-> TRUE, wellformed |-> TRUE, fmt |-> f, doc |-> d]

\* a parse error swallowed
JsonLoadRaises_Never(file) == FALSE

\* json.load(f): the document the text denotes; raises on malformed text
JsonLoadRaises(file) == ~file.wellformed
JsonLoad(file) == file.doc

\* json.dump(doc, f) without indent=2
JsonDump_Compact(d) == JsonFile("compact", d)

\* json.dump(doc, f, indent=2): the text is always the 2-space pretty-printed form
JsonDump(d) == JsonFile("indent2", d)

(***************************************************************************)
(* Program constants                                                       *)
(***************************************************************************)
MaxAttemptsSetup == 5
MaxAttemptsPolarity == 10
MinPasswordLen == 12
MaxAttempts == IF script = "setup_supabase" THEN MaxAttemptsSetup ELSE MaxAttemptsPolarity

Token == <<"sbp_token">>
PROJECT_NAME == <<"polarity">>
REGION == <<"ap-northeast-1">>
DB_PASSWORD == <<"D", "y", "d", "g", "n", "s", "0", "3", "1", "2", "!">>

\* the last two region codes swapped
regions_Swapped ==
    [c \in {<<"1">>, <<"2">>, <<"3">>, <<"4">>, <<"5">>, <<"6">>} |->
        CASE c = <<"1">> -> <<"us-east-1">>
          [] c = <<"2">> -> <<"us-west-1">>
          [] c = <<"3">> -> <<"eu-west-1">>
          [] c = <<"4">> -> <<"eu-central-1">>
          [] c = <<"5">> -> <<"ap-northeast-1">>
          [] c = <<"6">> -> <<"ap-southeast-1">>]

\* the `regions` dict of setup_supabase, keyed by the stripped choice
regions ==
    [c \in {<<"1">>, <<"2">>, <<"3">>, <<"4">>, <<"5">>, <<"6">>} |->
        CASE c = <<"1">> -> <<"us-east-1">>
          [] c = <<"2">> -> <<"us-west-1">>
          [] c = <<"3">> -> <<"eu-west-1">>
          [] c = <<"4">> -> <<"eu-central-1">>
          [] c = <<"5">> -> <<"ap-southeast-1">>
          [] c = <<"6">> -> <<"ap-northeast-1">>]

\* f"https://{project_ref}.supabase.co"
ProjectUrl(ref) == <<"https://">> \o ref \o <<".supabase.co">>

(***************************************************************************)
(* The .env file: its KEY=value lines, active or commented out ("# K=v")   *)
(***************************************************************************)
Line(k, v) == [commented |-> FALSE, key |-> k, value |-> v]
Comment(k, v) == [commented |-> TRUE, key |-> k, value |-> v]
OldEnvFile == [exists |-> TRUE, lines |-> <<Line("SUPABASE_URL", <<"https://stale.example">>),
                                            Line("KEEP_ME", <<"1">>)>>]

\* env_content of configure_everything
EnvContentSetup(url, anon, service, ref, reg, pw) ==
    << Line("SUPABASE_URL", url),
       Line("SUPABASE_KEY", anon),
       Line("SUPABASE_SERVICE_ROLE_KEY", service),
       Comment("SUPABASE_ACCESS_TOKEN", <<"(your access token)">>),
       Comment("SUPABASE_PROJECT_REF", ref),
       Comment("SUPABASE_REGION", reg),
       Line("SUPABASE_DB_PASSWORD", pw),
       Line("DEBUG", <<"true">>),
       Line("LOG_LEVEL", <<"info">>),
       Comment("ALPHA_VANTAGE_API_KEY", Empty),
       Comment("FINNHUB_API_KEY", Empty) >>

\* env_content of create_polarity
EnvContentPolarity(url, anon, service, ref) ==
    << Line("SUPABASE_URL", url),
       Line("SUPABASE_KEY", anon),
       Line("SUPABASE_SERVICE_ROLE_KEY", service),
       Line("SUPABASE_PROJECT_REF", ref),
       Line("SUPABASE_REGION", REGION),
       Line("SUPABASE_DB_PASSWORD", DB_PASSWORD),
       Line("DEBUG", <<"true">>),
       Line("LOG_LEVEL", <<"info">>),
       Comment("ALPHA_VANTAGE_API_KEY", Empty),
       Comment("FINNHUB_API_KEY", Empty) >>

\* the text this run renders into .env from its current variables
EnvContent ==
    IF script = "setup_supabase"
    THEN EnvContentSetup(project_url, anon_key, service_key, project_ref, region, db_password)
    ELSE EnvContentPolarity(project_url, anon_key, service_key, project_ref)

(***************************************************************************)
(* The settings document                                                   *)
(***************************************************************************)
\* the mcpServers.supabase entry both scripts install
SupabaseEntry(ref, token) ==
    JObj( "type" :> JStr(<<"http">>)
       @@ "url" :> JStr(<<"https://mcp.supabase.com/mcp?project_ref=">> \o ref)
       @@ "headers" :> JObj("Authorization" :> JStr(<<"Bearer ">> \o token)) )

\* `"mcpServers" not in settings` and the two item assignments raise TypeError
\* unless settings is a dict whose mcpServers (if present) is a dict
MergeRaises(doc) ==
    \/ doc.type # "object"
    \/ /\ "mcpServers" \in DOMAIN doc.members
       /\ doc.members["mcpServers"].type # "object"

\* settings["mcpServers"] = {"supabase": {...}}: the other servers are dropped
MergeSupabase_Replace(doc, ref, token) ==
    JObj(DictSet(doc.members, "mcpServers", JObj("supabase" :> SupabaseEntry(ref, token))))

\* if "mcpServers" not in settings: settings["mcpServers"] = {}
\* settings["mcpServers"]["supabase"] = {...}
MergeSupabase(doc, ref, token) ==
    LET withServers ==
            IF "mcpServers" \in DOMAIN doc.members
            THEN doc.members
            ELSE DictSet(doc.members, "mcpServers", JObj(EmptyMap))
        servers == withServers["mcpServers"].members
    IN  JObj(DictSet(withServers, "mcpServers",
                     JObj(DictSet(servers, "supabase", SupabaseEntry(ref, token)))))

(***************************************************************************)
(* Files that may exist before the run                                     *)
(***************************************************************************)
GithubEntry == JObj("type" :> JStr(<<"stdio">>) @@ "command" :> JStr(<<"gh-mcp">>))
OldSupabaseEntry == SupabaseEntry(<<"oldref">>, <<"old_token">>)
KnownServers == "github" :> GithubEntry @@ "supabase" :> OldSupabaseEntry

\* settings documents: with and without other top-level keys, other servers, an
\* earlier supabase entry, a non-dict mcpServers, and a top-level value that is no dict
Theme == "theme" :> JStr(<<"dark">>)
SettingsDocs ==
    { JObj(EmptyMap),
      JObj(Theme),
      JObj("mcpServers" :> JObj(EmptyMap)),
      JObj(Theme @@ "mcpServers" :> JObj("github" :> GithubEntry)),
      JObj(Theme @@ "mcpServers" :> JObj(KnownServers)),
      JObj(Theme @@ "mcpServers" :> JStr(<<"disabled">>)),
      JArr }
SettingsFiles ==
    { AbsentFile, MalformedFile }
    \cup { JsonFile(f, d) : f \in {"compact", "indent2"}, d \in SettingsDocs }
BackupFiles == { AbsentFile, JsonFile("indent2", JObj("stale" :> JStr(<<"backup">>))) }
EnvFiles == { OldEnvFile }
EnvTokens == { [set |-> FALSE, value |-> Empty],
               [set |-> TRUE, value |-> Empty],
               [set |-> TRUE, value |-> Token] }

NoPost == [sent |-> FALSE, name |-> Empty, organization_id |-> 0, region |-> Empty,
           db_pass |-> Empty, has_db_region |-> FALSE, db_region |-> Empty]
NoReqs == [organizations |-> 0, projects |-> 0, create |-> 0, api_keys |-> 0]

Init ==
    /\ script \in {"setup_supabase", "create_polarity"}
    /\ pc = "start"
    /\ exit_status = -1
    /\ exit_at = ""
    /\ env_token \in EnvTokens
    /\ access_token = Empty
    /\ orgs = << >>
    /\ org_id = 0
    /\ existing = << >>
    /\ project_name = Empty
    /\ project_ref = Empty
    /\ project_url = Empty
    /\ region = Empty
    /\ region_choice = Empty
    /\ db_password = Empty
    /\ anon_key = Empty
    /\ service_key = Empty
    /\ attempt = 0
    /\ settings = NoDoc
    /\ env0 \in EnvFiles
    /\ settings0 \in SettingsFiles
    /\ backup0 \in BackupFiles
    /\ env_file = env0
    /\ settings_file = settings0
    /\ backup_file = backup0
    /\ reqs = NoReqs
    /\ sleeps = 0
    /\ post_body = NoPost
    /\ file_reads = {}
    /\ file_writes = {}
    /\ last_call = [name |-> "", outcome |-> ""]
    /\ both_at = 0
    /\ pw_tries = 0

\* the process ends with `status` at step `at`
Exit(status, at) ==
    /\ pc' = "exit"
    /\ exit_status' = status
    /\ exit_at' = at

Goto(next) ==
    /\ pc' = next
    /\ UNCHANGED <<exit_status, exit_at>>

\* an exception nobody catches: setup_supabase's __main__ guard prints it and calls
\* sys.exit(1); in create_polarity the interpreter ends with status 1
Crash(at) == Exit(1, at)

\* `return` out of setup_supabase(): main() returns and the process ends normally
Return(at) == Exit(0, at)

(***************************************************************************)
(* Step: obtain the access token                                           *)
(***************************************************************************)
TokenInputs == { Empty, <<" ">>, Token, <<" ">> \o Token \o <<" ">> }

\* os.getenv("SUPABASE_ACCESS_TOKEN"): None when unset; None and "" are both falsy
GetEnvFalsy(e) == ~e.set \/ ~Truthy(e.value)

\* the token check dropped: the run goes on whatever the token is
Start_Unchecked ==
    /\ pc = "start"
    /\ \E typed \in TokenInputs :
         access_token' = IF GetEnvFalsy(env_token)
                         THEN IF script = "setup_supabase" THEN Strip(typed) ELSE Empty
                         ELSE env_token.value
    /\ Goto("fetch_orgs")
    /\ UNCHANGED <<init_vars, file_vars, log_vars>>
    /\ UNCHANGED <<orgs, org_id, existing, project_name, project_ref, project_url, region,
                   region_choice, db_password, anon_key, service_key, attempt, settings>>

Start ==
    /\ pc = "start"
    /\ \E typed \in TokenInputs :
         LET token == IF GetEnvFalsy(env_token)
                      THEN IF script = "setup_supabase" THEN Strip(typed) ELSE Empty
                      ELSE env_token.value
         IN  /\ access_token' = token
             /\ IF Truthy(token) THEN Goto("fetch_orgs") ELSE Exit(1, "start")
    /\ UNCHANGED <<init_vars, file_vars, log_vars>>
    /\ UNCHANGED <<orgs, org_id, existing, project_name, project_ref, project_url, region,
                   region_choice, db_password, anon_key, service_key, attempt, settings>>

(***************************************************************************)
(* HTTP                                                                    *)
(***************************************************************************)
\* a transport error: requests raises and `resp` is never bound
Raised == [raised |-> TRUE, status |-> 0, json_ok |-> FALSE, body |-> << >>]
Response(st, b) == [raised |-> FALSE, status |-> st, json_ok |-> TRUE, body |-> b]
ErrorBody == [message |-> <<"error">>]
Failure(st) == Response(st, ErrorBody)
NotJson(st) == [raised |-> FALSE, status |-> st, json_ok |-> FALSE, body |-> << >>]

\* resp.raise_for_status() raises for 4xx and 5xx
RaiseForStatus(r) == r.status >= 400 /\ r.status < 600

\* requests.get/post(...); resp.raise_for_status(); resp.json() raises
CallRaises(r) == r.raised \/ RaiseForStatus(r) \/ ~r.json_ok

\* the call failed: a transport error or a non-2xx response
CallFailed(r) == r.raised \/ r.status < 200 \/ r.status > 299

\* how the call ended, for the log
Outcome(r) == IF CallFailed(r) THEN "failed" ELSE IF ~r.json_ok THEN "unparsable" ELSE "ok"

Count(name) == [reqs EXCEPT ![name] = @ + 1]

\* seq[i] of Python for a 0-based, possibly negative index
PyIndexRaises(seq, i) == i >= Len(seq) \/ i < 0 - Len(seq)
PyIndex(seq, i) == IF i >= 0 THEN seq[i + 1] ELSE seq[Len(seq) + i + 1]

\* what the operator types at an int(input(...)) prompt
Digits(n) == [numeric |-> TRUE, n |-> n]
NotANumber == [numeric |-> FALSE, n |-> 0]
IndexInputs(len) == { Digits(n) : n \in 0..(len + 1) } \cup { NotANumber }

(***************************************************************************)
(* Step: list organizations                                                *)
(***************************************************************************)
Org(i) == [id |-> i, name |-> <<"org">>]
OrgList(n) == [i \in 1..n |-> Org(i)]
OrgResponses ==
    { Raised, Failure(401), Failure(500), NotJson(200) }
    \cup { Response(200, OrgList(n)) : n \in 0..MaxOrgs }

\* the `if not orgs` check dropped
FetchOrgsSetup_NoEmptyCheck(r) ==
    /\ last_call' = [name |-> "organizations", outcome |-> Outcome(r)]
    /\ IF CallRaises(r)
       THEN /\ Return("fetch_orgs")
            /\ UNCHANGED <<orgs, org_id>>
       ELSE /\ orgs' = r.body
            /\ IF Len(r.body) = 1
               THEN /\ org_id' = r.body[1].id
                    /\ Goto("fetch_projects")
               ELSE /\ Goto("select_org")
                    /\ UNCHANGED org_id

FetchOrgsSetup(r) ==
    /\ last_call' = [name |-> "organizations", outcome |-> Outcome(r)]
    /\ IF CallRaises(r)
       THEN /\ Return("fetch_orgs")
            /\ UNCHANGED <<orgs, org_id>>
       ELSE /\ orgs' = r.body
            /\ IF r.body = << >>
               THEN /\ Return("fetch_orgs")
                    /\ UNCHANGED org_id
               ELSE IF Len(r.body) = 1
               THEN /\ org_id' = r.body[1].id
                    /\ Goto("fetch_projects")
               ELSE /\ Goto("select_org")
                    /\ UNCHANGED org_id

FetchOrgsPolarity(r) ==
    /\ last_call' = [name |-> "organizations", outcome |-> Outcome(r)]
    /\ IF CallRaises(r)
       THEN /\ Crash("fetch_orgs")
            /\ UNCHANGED <<orgs, org_id>>
       ELSE /\ orgs' = r.body
            /\ IF PyIndexRaises(r.body, 0)
               THEN /\ Crash("fetch_orgs")
                    /\ UNCHANGED org_id
               ELSE /\ org_id' = PyIndex(r.body, 0).id
                    /\ Goto("post")

FetchOrgs ==
    /\ pc = "fetch_orgs"
    /\ reqs' = Count("organizations")
    /\ \E r \in OrgResponses :
         IF script = "setup_supabase" THEN FetchOrgsSetup(r) ELSE FetchOrgsPolarity(r)
    /\ UNCHANGED <<init_vars, file_vars>>
    /\ UNCHANGED <<sleeps, post_body, file_reads, file_writes, both_at, pw_tries>>
    /\ UNCHANGED <<access_token, existing, project_name, project_ref, project_url, region,
                   region_choice, db_password, anon_key, service_key, attempt, settings>>

\* choice = int(input(...)) - 1; selected_org = orgs[choice]
SelectOrg ==
    /\ pc = "select_org"
    /\ \E typed \in IndexInputs(Len(orgs)) :
         IF ~typed.numeric \/ PyIndexRaises(orgs, typed.n - 1)
         THEN /\ Crash("select_org")
              /\ UNCHANGED org_id
         ELSE /\ org_id' = PyIndex(orgs, typed.n - 1).id
              /\ Goto("fetch_projects")
    /\ UNCHANGED <<init_vars, file_vars, log_vars>>
    /\ UNCHANGED <<access_token, orgs, existing, project_name, project_ref, project_url,
                   region, region_choice, db_password, anon_key, service_key, attempt,
                   settings>>

(***************************************************************************)
(* Step: list existing projects, optionally reuse one                      *)
(***************************************************************************)
\* the first listed project carries no region field
RefNames == <<"old1", "old2", "old3", "old4">>
Project(i) == [ref |-> <<RefNames[i]>>, name |-> <<"proj">>,
               has_region |-> (i > 1), region |-> <<"eu-west-1">>]
ProjectList(n) == [i \in 1..n |-> Project(i)]
ProjectResponses ==
    { Raised, Failure(500), NotJson(200) }
    \cup { Response(200, ProjectList(n)) : n \in 0..MaxProjects }

FetchProjects ==
    /\ pc = "fetch_projects"
    /\ reqs' = Count("projects")
    /\ \E r \in ProjectResponses :
         /\ last_call' = [name |-> "projects", outcome |-> Outcome(r)]
         /\ existing' = IF CallRaises(r) THEN << >> ELSE r.body
         /\ IF existing' # << >> THEN Goto("ask_reuse") ELSE Goto("create_input")
    /\ UNCHANGED <<init_vars, file_vars>>
    /\ UNCHANGED <<sleeps, post_body, file_reads, file_writes, both_at, pw_tries>>
    /\ UNCHANGED <<access_token, orgs, org_id, project_name, project_ref, project_url,
                   region, region_choice, db_password, anon_key, service_key, attempt,
                   settings>>

\* str.lower() on the characters an answer may hold
Lower(s) == [i \in 1..Len(s) |-> IF s[i] = "Y" THEN "y" ELSE IF s[i] = "N" THEN "n" ELSE s[i]]
AnswerInputs == { Empty, <<"y">>, <<"n">>, <<" ", "Y", " ">> }

\* project.get('region', 'us-east-1')
ProjectRegion(p) == IF p.has_region THEN p.region ELSE <<"us-east-1">>

AskReuse ==
    /\ pc = "ask_reuse"
    /\ \E answer \in AnswerInputs, typed \in IndexInputs(Len(existing)) :
         IF Strip(Lower(answer)) # <<"y">>
         THEN /\ Goto("create_input")
              /\ UNCHANGED <<project_ref, project_url, region>>
         ELSE IF ~typed.numeric \/ PyIndexRaises(existing, typed.n - 1)
         THEN /\ Crash("ask_reuse")
              /\ UNCHANGED <<project_ref, project_url, region>>
         ELSE LET project == PyIndex(existing, typed.n - 1)
              IN  /\ project_ref' = project.ref
                  /\ project_url' = ProjectUrl(project.ref)
                  /\ region' = ProjectRegion(project)
                  /\ Goto("reuse_keys")
    /\ UNCHANGED <<init_vars, file_vars, log_vars>>
    /\ UNCHANGED <<access_token, orgs, org_id, existing, project_name, region_choice,
                   db_password, anon_key, service_key, attempt, settings>>

(***************************************************************************)
(* API keys                                                                *)
(***************************************************************************)
Key(n, v) == [name |-> n, has_api_key |-> TRUE, api_key |-> v]
KeyWithoutValue(n) == [name |-> n, has_api_key |-> FALSE, api_key |-> Empty]
AnonValue == <<"anon-jwt">>
ServiceValue == <<"service-jwt">>
KeyBodies ==
    { << >>,
      << Key("anon", AnonValue) >>,
      << Key("service_role", ServiceValue) >>,
      << Key("anon", AnonValue), Key("service_role", ServiceValue) >>,
      << Key("anon", Empty), Key("service_role", ServiceValue) >>,
      << Key("anon", AnonValue), KeyWithoutValue("service_role") >> }
KeyResponses ==
    { Raised, Failure(404), NotJson(200) }
    \cup { Response(200, b) : b \in KeyBodies }

\* next((k['api_key'] for k in keys if k.get('name') == name), '')
FindKey(keys, name) ==
    LET hits == { i \in 1..Len(keys) : keys[i].name = name }
    IN  IF hits = {}
        THEN [raised |-> FALSE, value |-> Empty]
        ELSE LET k == keys[CHOOSE i \in hits : \A j \in hits : i <= j]
             IN  IF k.has_api_key
                 THEN [raised |-> FALSE, value |-> k.api_key]
                 ELSE [raised |-> TRUE, value |-> Empty]

\* anon_key = next(...); service_key = next(...), starting from (anon, service):
\* the first assignment stands when the second lookup raises
ParseKeys(keys, anon, service) ==
    LET a == FindKey(keys, "anon")
        s == FindKey(keys, "service_role")
    IN  IF a.raised
        THEN [raised |-> TRUE, anon |-> anon, service |-> service]
        ELSE IF s.raised
        THEN [raised |-> TRUE, anon |-> a.value, service |-> service]
        ELSE [raised |-> FALSE, anon |-> a.value, service |-> s.value]

\* the try/except around the api-keys call on the reuse path
ReuseKeysResult(r) ==
    LET parsed == ParseKeys(r.body, Empty, Empty)
    IN  IF CallRaises(r) \/ parsed.raised
        THEN [anon |-> Empty, service |-> Empty]
        ELSE [anon |-> parsed.anon, service |-> parsed.service]

Pw12 == <<"a", "b", "c", "d", "e", "f", "g", "h", "i", "j", "1", "2">>
PwOther == <<"a", "b", "c", "d", "e", "f", "g", "h", "i", "j", "1", "3">>
PwShort == <<"a", "b", "c", "d", "e", "f", "g", "h", "i", "j", "1">>

ReuseKeys ==
    /\ pc = "reuse_keys"
    /\ reqs' = Count("api_keys")
    /\ \E r \in KeyResponses, typed \in { Pw12 \o <<" ">>, PwShort } :
         /\ anon_key' = ReuseKeysResult(r).anon
         /\ service_key' = ReuseKeysResult(r).service
         /\ db_password' = Strip(typed)
    /\ Goto("env")
    /\ UNCHANGED <<init_vars, file_vars>>
    /\ UNCHANGED <<sleeps, post_body, file_reads, file_writes, last_call, both_at, pw_tries>>
    /\ UNCHANGED <<access_token, orgs, org_id, existing, project_name, project_ref,
                   project_url, region, region_choice, attempt, settings>>

(***************************************************************************)
(* Step: the new project's name, region and password                       *)
(***************************************************************************)
RegionInputs == { Empty, <<"1">>, <<"2">>, <<"3">>, <<"4">>, <<"5">>, <<"6">>,
                  <<" ", "6", " ">>, <<"7">> }

\* input(...).strip() or "1"
RegionChoice(typed) == IF Truthy(Strip(typed)) THEN Strip(typed) ELSE <<"1">>

CreateInput ==
    /\ pc = "create_input"
    /\ project_name' = Strip(<<"Finance Platform", " ">>)
    /\ \E typed \in RegionInputs :
         /\ region_choice' = RegionChoice(typed)
         /\ IF RegionChoice(typed) \in DOMAIN regions
            THEN /\ region' = regions[RegionChoice(typed)]
                 /\ Goto("password")
            ELSE /\ Crash("create_input")
                 /\ UNCHANGED region
    /\ UNCHANGED <<init_vars, file_vars, log_vars>>
    /\ UNCHANGED <<access_token, orgs, org_id, existing, project_ref, project_url,
                   db_password, anon_key, service_key, attempt, settings>>

\* one iteration of the `while True` password loop
PasswordAccepted(pw, confirm) == Len(pw) >= MinPasswordLen /\ pw = confirm

PasswordPrompt ==
    /\ pc = "password"
    /\ \E typed \in { Pw12, <<" ">> \o Pw12, PwShort }, retyped \in { Pw12, PwOther } :
         /\ db_password' = Strip(typed)
         /\ IF PasswordAccepted(Strip(typed), Strip(retyped))
            THEN /\ Goto("post")
                 /\ pw_tries' = 0
            ELSE /\ pw_tries < MaxPasswordTries
                 /\ Goto("password")
                 /\ pw_tries' = pw_tries + 1
    /\ UNCHANGED <<init_vars, file_vars>>
    /\ UNCHANGED <<reqs, sleeps, post_body, file_reads, file_writes, last_call, both_at>>
    /\ UNCHANGED <<access_token, orgs, org_id, existing, project_name, project_ref,
                   project_url, region, region_choice, anon_key, service_key, attempt,
                   settings>>

(***************************************************************************)
(* Step: create the project                                                *)
(***************************************************************************)
NewRef == <<"newref">>
NewProject == [id |-> <<"project-id">>, ref |-> NewRef]
PostResponses ==
    { Raised, Response(200, NewProject), Response(201, NewProject), Response(202, NewProject),
      NotJson(201), Failure(400), Failure(500) }

\* project.get('ref'); None renders as "None" in the f-strings that use it
GetRef(project) == IF "ref" \in DOMAIN project THEN project.ref ELSE <<"None">>

\* the json= payload of requests.post
PostBodySetup ==
    [sent |-> TRUE, name |-> project_name, organization_id |-> org_id, region |-> region,
     db_pass |-> db_password, has_db_region |-> TRUE, db_region |-> region]
PostBodyPolarity ==
    [sent |-> TRUE, name |-> PROJECT_NAME, organization_id |-> org_id, region |-> REGION,
     db_pass |-> DB_PASSWORD, has_db_region |-> FALSE, db_region |-> Empty]

\* resp.raise_for_status() left out
PostAcceptedSetup_NoStatus(r) == ~r.raised /\ r.json_ok

\* does the script go on to poll for keys after this response?
PostAcceptedSetup(r) == ~CallRaises(r)
PostAcceptedPolarity(r) == ~r.raised /\ r.status \in {200, 201} /\ r.json_ok

PostProject ==
    /\ pc = "post"
    /\ reqs' = Count("create")
    /\ post_body' = IF script = "setup_supabase" THEN PostBodySetup ELSE PostBodyPolarity
    /\ \E r \in PostResponses :
         /\ last_call' = [name |-> "create", outcome |-> Outcome(r)]
         /\ IF script = "setup_supabase"
            THEN IF PostAcceptedSetup(r)
                 THEN /\ project_ref' = GetRef(r.body)
                      /\ project_url' = ProjectUrl(GetRef(r.body))
                      /\ Goto("poll")
                 ELSE /\ Return("post")
                      /\ UNCHANGED <<project_ref, project_url>>
            ELSE IF PostAcceptedPolarity(r)
                 THEN /\ project_ref' = r.body.ref
                      /\ project_url' = ProjectUrl(r.body.ref)
                      /\ Goto("poll")
                 ELSE \* sys.exit(1) on the status check, or an uncaught exception
                      /\ Exit(1, "post")
                      /\ UNCHANGED <<project_ref, project_url>>
    /\ anon_key' = Empty
    /\ service_key' = Empty
    /\ UNCHANGED <<init_vars, file_vars>>
    /\ UNCHANGED <<sleeps, file_reads, file_writes, both_at, pw_tries>>
    /\ UNCHANGED <<access_token, orgs, org_id, existing, project_name, region, region_choice,
                   db_password, attempt, settings>>

(***************************************************************************)
(* Step: one iteration of the key-polling loop                             *)
(***************************************************************************)
\* the body of the try block: keys as they stand after the attempt, and whether
\* the attempt reached `break`
PollAttempt(r, anon, service) ==
    IF r.raised \/ r.status # 200 \/ ~r.json_ok
    THEN [anon |-> anon, service |-> service, found |-> FALSE]
    ELSE LET parsed == ParseKeys(r.body, anon, service)
         IN  [anon |-> parsed.anon, service |-> parsed.service,
              found |-> ~parsed.raised /\ Truthy(parsed.anon) /\ Truthy(parsed.service)]

\* the `break` left out
LoopEnds_NoBreak(found, done) == done >= MaxAttempts

\* for attempt in range(N): the loop ends on break or after the N-th iteration
LoopEnds(found, done) == found \/ done >= MaxAttempts

PollKeys ==
    /\ pc = "poll"
    /\ sleeps' = sleeps + 1
    /\ reqs' = Count("api_keys")
    /\ attempt' = attempt + 1
    /\ \E r \in KeyResponses :
         LET out == PollAttempt(r, anon_key, service_key)
         IN  /\ anon_key' = out.anon
             /\ service_key' = out.service
             /\ both_at' = IF out.found THEN attempt + 1 ELSE both_at
             /\ IF LoopEnds(out.found, attempt + 1) THEN Goto("env") ELSE Goto("poll")
    /\ UNCHANGED <<init_vars, file_vars>>
    /\ UNCHANGED <<post_body, file_reads, file_writes, last_call, pw_tries>>
    /\ UNCHANGED <<access_token, orgs, org_id, existing, project_name, project_ref,
                   project_url, region, region_choice, db_password, settings>>

(***************************************************************************)
(* Steps: write .env; load and back up settings.json; merge and write it   *)
(***************************************************************************)
\* with open(".env", "w") as f: f.write(env_content)
WriteEnv ==
    /\ pc = "env"
    /\ env_file' = [exists |-> TRUE, lines |-> EnvContent]
    /\ file_writes' = file_writes \cup {".env"}
    /\ Goto("load_settings")
    /\ UNCHANGED <<init_vars, prog_vars, settings_file, backup_file>>
    /\ UNCHANGED <<reqs, sleeps, post_body, file_reads, last_call, both_at, pw_tries>>

\* the backup write left out
LoadSettings_NoBackup ==
    /\ pc = "load_settings"
    /\ IF settings_file.exists
       THEN /\ file_reads' = file_reads \cup {"settings.json"}
            /\ IF JsonLoadRaises(settings_file)
               THEN /\ Crash("load_settings")
                    /\ UNCHANGED settings
               ELSE /\ settings' = JsonLoad(settings_file)
                    /\ Goto("merge")
       ELSE /\ settings' = JObj(EmptyMap)
            /\ Goto("merge")
            /\ UNCHANGED file_reads
    /\ UNCHANGED <<init_vars, file_vars>>
    /\ UNCHANGED <<reqs, sleeps, post_body, file_writes, last_call, both_at, pw_tries>>
    /\ UNCHANGED <<access_token, orgs, org_id, existing, project_name, project_ref,
                   project_url, region, region_choice, db_password, anon_key, service_key,
                   attempt>>

\* if settings_path.exists(): settings = json.load(f); json.dump(settings, backup)
\* else: settings = {}
LoadSettings ==
    /\ pc = "load_settings"
    /\ IF settings_file.exists
       THEN /\ file_reads' = file_reads \cup {"settings.json"}
            /\ IF JsonLoadRaises(settings_file)
               THEN /\ Crash("load_settings")
                    /\ UNCHANGED <<settings, backup_file, file_writes>>
               ELSE /\ settings' = JsonLoad(settings_file)
                    /\ backup_file' = JsonDump(JsonLoad(settings_file))
                    /\ file_writes' = file_writes \cup {"settings.json.backup"}
                    /\ Goto("merge")
       ELSE /\ settings' = JObj(EmptyMap)
            /\ Goto("merge")
            /\ UNCHANGED <<file_reads, backup_file, file_writes>>
    /\ UNCHANGED <<init_vars, env_file, settings_file>>
    /\ UNCHANGED <<reqs, sleeps, post_body, last_call, both_at, pw_tries>>
    /\ UNCHANGED <<access_token, orgs, org_id, existing, project_name, project_ref,
                   project_url, region, region_choice, db_password, anon_key, service_key,
                   attempt>>

\* the merge of mcpServers.supabase into `settings`, then
\* with open(settings_path, 'w') as f: json.dump(settings, f, indent=2);
\* after it the script only prints and ends
MergeAndWrite ==
    /\ pc = "merge"
    /\ IF MergeRaises(settings)
       THEN /\ Crash("merge")
            /\ UNCHANGED <<settings, settings_file, file_writes>>
       ELSE /\ settings' = MergeSupabase(settings, project_ref, access_token)
            /\ settings_file' = JsonDump(MergeSupabase(settings, project_ref, access_token))
            /\ file_writes' = file_writes \cup {"settings.json"}
            /\ Exit(0, "done")
    /\ UNCHANGED <<init_vars, env_file, backup_file>>
    /\ UNCHANGED <<reqs, sleeps, post_body, file_reads, last_call, both_at, pw_tries>>
    /\ UNCHANGED <<access_token, orgs, org_id, existing, project_name, project_ref,
                   project_url, region, region_choice, db_password, anon_key, service_key,
                   attempt>>

Next ==
    \/ Start
    \/ FetchOrgs
    \/ SelectOrg
    \/ FetchProjects
    \/ AskReuse
    \/ ReuseKeys
    \/ CreateInput
    \/ PasswordPrompt
    \/ PostProject
    \/ PollKeys
    \/ WriteEnv
    \/ LoadSettings
    \/ MergeAndWrite

Spec == Init /\ [][Next]_vars

(***************************************************************************)
(* Properties                                                              *)
(***************************************************************************)
\* does the file hold the line KEY=value (commented out or not, as asked)?
HasLine(file, commented, k, v) ==
    /\ file.exists
    /\ \E i \in 1..Len(file.lines) :
         /\ file.lines[i].commented = commented
         /\ file.lines[i].key = k
         /\ file.lines[i].value = v

FilesAsBefore == env_file = env0 /\ settings_file = settings0 /\ backup_file = backup0
NoFileAccess == file_reads = {} /\ file_writes = {}
Ended == pc = "exit"
\* the run created a project and its POST was accepted
Polled == reqs.create = 1 /\ attempt > 0
\* the run got past the load (and backup) of settings.json
PastLoad == pc = "merge" \/ exit_at \in {"merge", "done"}
\* the polling loop ran out of attempts without an attempt that found both keys
Exhausted == reqs.create = 1 /\ attempt = MaxAttempts /\ both_at = 0

\* C1: once the token step has run with an empty or unset token (in
\* create_polarity: SUPABASE_ACCESS_TOKEN unset or empty; in setup_supabase: also
\* the typed token empty after stripping), the run has ended with status 1, no
\* HTTP request was issued and no file was read or written.
C1_EmptyTokenExitsWithoutIO ==
    /\ (pc # "start" /\ access_token = Empty) =>
          /\ Ended /\ exit_status = 1 /\ exit_at = "start"
          /\ reqs = NoReqs /\ sleeps = 0
          /\ NoFileAccess /\ FilesAsBefore
    /\ (pc # "start" /\ script = "create_polarity" /\ GetEnvFalsy(env_token)) =>
          access_token = Empty
    /\ (pc # "start" /\ script = "setup_supabase" /\ ~GetEnvFalsy(env_token)) =>
          access_token = env_token.value

C1_Witness ==
    /\ Ended /\ exit_at = "start" /\ exit_status = 1
    /\ script = "setup_supabase" /\ ~env_token.set
    /\ settings0.exists /\ settings0.wellformed

\* C2: when settings.json held a JSON object before the run and the run
\* completes, every top-level key other than mcpServers and every mcpServers
\* entry other than supabase has its original value, no other key or entry
\* appeared, and mcpServers.supabase is the new entry.
C2_MergePreservesOthers ==
    (exit_at = "done" /\ settings0.exists /\ settings0.wellformed
        /\ settings0.doc.type = "object") =>
       LET old == settings0.doc.members
           new == JsonLoad(settings_file).members
           oldServers == IF "mcpServers" \in DOMAIN old
                         THEN old["mcpServers"].members ELSE EmptyMap
       IN  /\ settings_file.exists /\ settings_file.wellformed
           /\ JsonLoad(settings_file).type = "object"
           /\ DOMAIN new = (DOMAIN old) \cup {"mcpServers"}
           /\ \A k \in (DOMAIN old) \ {"mcpServers"} : new[k] = old[k]
           /\ new["mcpServers"].type = "object"
           /\ DOMAIN new["mcpServers"].members = (DOMAIN oldServers) \cup {"supabase"}
           /\ \A n \in (DOMAIN oldServers) \ {"supabase"} :
                 new["mcpServers"].members[n] = oldServers[n]
           /\ new["mcpServers"].members["supabase"] = SupabaseEntry(project_ref, access_token)

C2_Witness ==
    /\ exit_at = "done"
    /\ settings0 = JsonFile("compact", JObj(Theme @@ "mcpServers" :> JObj(KnownServers)))
    /\ settings_file # settings0

\* C3 (as stated): whenever settings.json existed before the run, then after the
\* run, however it ended, settings.json.backup exists and holds exactly the
\* contents settings.json had before the run.
C3_Original ==
    (Ended /\ settings0.exists) => (backup_file.exists /\ backup_file = settings0)

\* C3 (amended): whenever settings.json existed before the run and the run got
\* past loading it, settings.json.backup holds the document parsed from the prior
\* settings.json, re-serialised with indent=2 (the same JSON document, not
\* necessarily the same text); a run that ended earlier wrote no backup.
C3_BackupOfParsedDocument ==
    /\ (settings0.exists /\ PastLoad) =>
          /\ settings0.wellformed
          /\ backup_file = JsonFile("indent2", settings0.doc)
          /\ "settings.json.backup" \in file_writes
    /\ (Ended /\ ~PastLoad) =>
          /\ backup_file = backup0
          /\ "settings.json.backup" \notin file_writes

C3_Witness ==
    /\ exit_at = "done"
    /\ settings0.exists /\ settings0.fmt = "compact"
    /\ backup0.exists /\ backup_file # backup0 /\ backup_file # settings0

\* C4: when settings.json pre-exists, every step that writes settings.json starts
\* in a state where settings.json.backup already holds the pre-existing document;
\* settings.json is never changed otherwise.
C4_BackupBeforeWrite ==
    [][ /\ ("settings.json" \in file_writes' /\ settings0.exists) =>
              /\ "settings.json.backup" \in file_writes
              /\ backup_file = JsonFile("indent2", settings0.doc)
              /\ backup_file' = backup_file
        /\ (settings_file' # settings_file) =>
              ("settings.json" \notin file_writes /\ "settings.json" \in file_writes')
      ]_vars

C4_Witness ==
    /\ "settings.json" \in file_writes
    /\ settings0.exists /\ ~backup0.exists
    /\ settings_file # settings0

\* C5 (as stated): on the creation path, if the polling loop used all its attempts
\* without an attempt returning both keys, .env is written and SUPABASE_KEY and
\* SUPABASE_SERVICE_ROLE_KEY are both rendered empty.
C5_ExhaustedKeysRenderedEmpty ==
    (Exhausted /\ pc \notin {"poll", "env"}) =>
       /\ ".env" \in file_writes
       /\ HasLine(env_file, FALSE, "SUPABASE_KEY", Empty)
       /\ HasLine(env_file, FALSE, "SUPABASE_SERVICE_ROLE_KEY", Empty)

\* C6: if the organization list came back empty, the run has ended without any
\* project call (list, create, api-keys) and without writing .env or
\* settings.json; in both scripts.
C6_EmptyOrgsAborts ==
    (last_call = [name |-> "organizations", outcome |-> "ok"] /\ orgs = << >>) =>
       /\ Ended /\ exit_at = "fetch_orgs"
       /\ reqs = [NoReqs EXCEPT !.organizations = 1]
       /\ file_writes = {} /\ FilesAsBefore

C6_Witness ==
    /\ last_call = [name |-> "organizations", outcome |-> "ok"] /\ orgs = << >>
    /\ script = "create_polarity" /\ exit_status = 1

\* the six region codes, by menu number
C7_Codes == <<"us-east-1", "us-west-1", "eu-west-1", "eu-central-1",
              "ap-southeast-1", "ap-northeast-1">>
C7_Digits == <<"1", "2", "3", "4", "5", "6">>
C7_Expected(choice) ==
    LET n == CHOOSE i \in 1..6 : choice = <<C7_Digits[i]>> IN <<C7_Codes[n]>>

\* C7 (as stated): in setup_supabase, creating a project with region choice "6"
\* and password "abcdefghij12", the written .env holds the line
\* SUPABASE_REGION=ap-northeast-1 and the line SUPABASE_DB_PASSWORD=abcdefghij12.
C7_Original ==
    (script = "setup_supabase" /\ reqs.create = 1 /\ ".env" \in file_writes
        /\ region_choice = <<"6">> /\ db_password = Pw12) =>
       /\ HasLine(env_file, FALSE, "SUPABASE_REGION", <<"ap-northeast-1">>)
       /\ HasLine(env_file, FALSE, "SUPABASE_DB_PASSWORD", Pw12)

\* C7 (amended): in setup_supabase the region choice "1".."6" (empty meaning "1")
\* maps to its fixed code ("6" to ap-northeast-1), which is the region and
\* db_region sent in the POST; the written .env holds it only in the commented-out
\* line "# SUPABASE_REGION=<code>", never as an active assignment, and holds the
\* active line SUPABASE_DB_PASSWORD=<password as typed and stripped>.
C7_RegionCommentedPasswordActive ==
    (script = "setup_supabase" /\ reqs.create = 1) =>
       /\ region_choice \in { <<C7_Digits[i]>> : i \in 1..6 }
       /\ region = C7_Expected(region_choice)
       /\ (region_choice = <<"6">> => region = <<"ap-northeast-1">>)
       /\ post_body.sent
       /\ post_body.region = region /\ post_body.db_region = region
       /\ post_body.db_pass = db_password
       /\ Len(db_password) >= 12
       /\ (".env" \in file_writes) =>
             /\ HasLine(env_file, TRUE, "SUPABASE_REGION", region)
             /\ \A i \in 1..Len(env_file.lines) :
                   env_file.lines[i].key = "SUPABASE_REGION" => env_file.lines[i].commented
             /\ HasLine(env_file, FALSE, "SUPABASE_DB_PASSWORD", db_password)

C7_Witness ==
    /\ script = "setup_supabase" /\ reqs.create = 1 /\ ".env" \in file_writes
    /\ region_choice = <<"6">> /\ db_password = Pw12
    /\ HasLine(env_file, TRUE, "SUPABASE_REGION", <<"ap-northeast-1">>)

\* the state part of C8
C8_State ==
    /\ (reqs.create = 1) =>
          /\ reqs.api_keys <= MaxAttempts
          /\ reqs.api_keys = attempt
          /\ sleeps = reqs.api_keys
    /\ (pc = "poll") => (attempt < MaxAttempts /\ both_at = 0)
    /\ (both_at > 0) => (reqs.api_keys = both_at /\ Truthy(anon_key) /\ Truthy(service_key))
    /\ exit_at # "poll"
    /\ (Polled /\ pc # "poll") =>
          (attempt = MaxAttempts \/ both_at = attempt)
    /\ (Polled /\ Ended) =>
          (".env" \in file_writes /\ exit_at \in {"load_settings", "merge", "done"})

\* C8: the polling loop after creation terminates: every iteration sleeps once,
\* issues one GET api-keys and counts one attempt, there are at most 5
\* (setup_supabase) or 10 (create_polarity) of them, none follows the attempt that
\* returned both keys, no attempt ends the run, and the step after the loop is
\* the write of .env, after which settings.json is loaded and written.
C8_PollingTerminates ==
    [][ /\ C8_State'
        /\ (pc = "poll") =>
              /\ attempt' = attempt + 1
              /\ reqs'.api_keys = reqs.api_keys + 1
              /\ sleeps' = sleeps + 1
              /\ pc' \in {"poll", "env"}
        /\ (pc' = "env" /\ pc = "poll") => (attempt' = MaxAttempts \/ both_at' = attempt')
        /\ (pc = "env") => (pc' = "load_settings" /\ ".env" \in file_writes')
      ]_vars

C8_Witness ==
    /\ script = "create_polarity"
    /\ attempt = MaxAttemptsPolarity /\ both_at = 0
    /\ Truthy(anon_key) /\ ~Truthy(service_key)
    /\ exit_at = "done"

C10_EnvBeforeSettings ==
    /\ ("settings.json" \in file_reads \cup file_writes) => (".env" \in file_writes)
    /\ (".env" \in file_writes) => (env_file = [exists |-> TRUE, lines |-> EnvContent])
    /\ (settings_file # settings0) => (env_file # env0)
    /\ (exit_at = "load_settings") =>
          /\ settings0 = MalformedFile
          /\ exit_status = 1
          /\ env_file # env0
          /\ HasLine(env_file, FALSE, "SUPABASE_URL", project_url)
          /\ settings_file = settings0
          /\ backup_file = backup0
          /\ file_writes = {".env"}
    /\ (settings0 = MalformedFile /\ Ended /\ ".env" \in file_writes) =>
          exit_at = "load_settings"

C10_Witness ==
    /\ exit_at = "load_settings" /\ script = "setup_supabase"
    /\ backup0.exists /\ Truthy(anon_key) /\ Truthy(service_key)

====
